---- MODULE Spec2Model ----
\* Withdrawal ledger of HH.task: the store (internal/store/store.go) over the
\* PostgreSQL schema (schema.sql), modelled at the granularity of one SQL
\* statement per step.  Every call runs in a process p; a transaction's writes
\* are buffered in tx[p] and become visible to the others at COMMIT only
\* (READ COMMITTED, the default of pgx.TxOptions{}).
EXTENDS Integers, FiniteSets, Sequences, TLC

\* ---------------------------------------------------------------- bounds
MaxBalance == 1        \* users are created with a balance in 0..MaxBalance
MaxAmount == 1         \* requests ask for an amount in 1..MaxAmount

Procs == {1, 2}                      \* concurrent requests
Users == {1, 2}                      \* user ids
Amounts == 1..MaxAmount
Keys == {"k1", "k2"}                 \* idempotency keys
Destinations == {"addr", "addr2"}
\* values withdrawals_id_seq may hand out: one for each concurrent request
WithdrawalIDs == 1..Cardinality(Procs)
MaxWithdrawals == Cardinality(WithdrawalIDs)

\* ------------------------------------------------------- program constants
StatusPending == "pending"
StatusConfirmed == "confirmed"
DirectionDebit == "debit"
USDT == "USDT"

ErrNone == "nil"
ErrInsufficientBalance == "insufficient balance"
ErrIdempotencyConflict == "idempotency conflict"
ErrNotFound == "not found"
ErrUserNotFound == "user not found"
ErrUserExists == "user exists"
ErrInvalidStatus == "invalid status"
\* errors of the storage collaborator (pgconn.PgError codes and the rest)
ErrUniqueViolation == "23505"
ErrCheckViolation == "23514"
ErrTxAborted == "25P02"
ErrStorage == "storage failure"
\* the error code the handlers write with 400 Bad Request
ErrInvalidRequest == "invalid_request"

\* Withdrawal{} and User{}: the zero values returned beside an error
ZeroWithdrawal ==
    [id |-> 0, user_id |-> 0, amount |-> 0, currency |-> "", destination |-> "",
     status |-> "", idempotency_key |-> ""]

NoCall == [op |-> "none", UserID |-> 0, Amount |-> 0, Currency |-> "",
           Destination |-> "", IdempotencyKey |-> "", id |-> 0, Balance |-> 0]
ZeroUser == [id |-> 0, balance |-> 0]
NoResult == [err |-> "pending", w |-> ZeroWithdrawal, u |-> ZeroUser]
EmptyTx == [ins |-> {}, bal |-> {}, led |-> {}, upd |-> {}]

VARIABLES
    users,        \* committed table users: id -> balance (domain = existing ids)
    initial,      \* history: id -> the balance the user was created with
    withdrawals,  \* committed table withdrawals: set of rows
    ledger,       \* committed table ledger_entries: set of rows
    wseq,         \* last value of withdrawals_id_seq (not transactional)
    lseq,         \* last value of ledger_entries_id_seq
    userLock,     \* users row lock: id -> holder (0 = free)
    rowLock,      \* withdrawals row lock: id -> holder (0 = free)
    pc,           \* p -> position of the call p executes
    call,         \* p -> the call and its input
    balance,      \* p -> local `balance` of CreateWithdrawal
    created,      \* p -> local `created` / `w` of the call
    tx,           \* p -> uncommitted writes of p's transaction
    res           \* p -> what the last call of p returned

vars == <<users, initial, withdrawals, ledger, wseq, lseq, userLock, rowLock,
          pc, call, balance, created, tx, res>>

db == <<users, withdrawals, ledger>>

CreatePCs == {"cw_lock", "cw_lookup", "cw_insert", "cw_debit", "cw_ledger", "cw_commit"}
CreateInTx == CreatePCs \ {"cw_lock"}
ConfirmPCs == {"cf_lock", "cf_update", "cf_commit"}
UserPCs == {"cu_insert"}
GetPCs == {"gw_query"}

\* ------------------------------------------------------------ the storage
\* mutant: a transaction sees its own rows only, never the committed ones
VisibleOwnOnly(p) == tx[p].ins

\* What transaction p sees: the committed rows and its own uncommitted insert.
Visible(p) == withdrawals \cup tx[p].ins

\* mutant: one lock for the whole table instead of the selected row
LockKeyWholeTable(userID) == 1

\* SELECT balance FROM users WHERE id = $1 FOR UPDATE locks the one row the
\* WHERE clause selects.
LockKey(userID) == userID

\* mutant: the select does not wait for the lock (FOR UPDATE left out)
CanLockUserNoWait(p, userID) == TRUE

\* The row lock is granted when no other transaction holds it.
CanLockUser(p, userID) == userLock[LockKey(userID)] \in {0, p}

\* mutant: the select does not wait for the lock (FOR UPDATE left out)
CanLockRowNoWait(p, id) == TRUE

\* SELECT ... FROM withdrawals WHERE id = $1 FOR UPDATE
CanLockRow(p, id) == rowLock[id] \in {0, p}

\* The insert waits while another open transaction holds an uncommitted row
\* with the same (user_id, idempotency_key): UNIQUE (user_id, idempotency_key).
UniqueWait(p, userID, key) ==
    \E q \in Procs \ {p} : \E w \in tx[q].ins :
        w.user_id = userID /\ w.idempotency_key = key

UniqueViolation(p, userID, key) ==
    \E w \in Visible(p) : w.user_id = userID /\ w.idempotency_key = key

\* CHECK (balance >= 0) of users
BalanceCheck(b) == b >= 0

\* COMMIT: the buffered writes of p become the committed rows.
CommittedUsers(p) ==
    [x \in DOMAIN users |->
        IF \E b \in tx[p].bal : b[1] = x
        THEN (CHOOSE b \in tx[p].bal : b[1] = x)[2]
        ELSE users[x]]

\* mutant: the update of the status has no WHERE clause
CommittedWithdrawalsAllRows(p) ==
    {IF tx[p].upd # {}
     THEN [w EXCEPT !.status = (CHOOSE s \in tx[p].upd : TRUE)[2]]
     ELSE w : w \in withdrawals} \cup tx[p].ins

CommittedWithdrawals(p) ==
    {IF \E s \in tx[p].upd : s[1] = w.id
     THEN [w EXCEPT !.status = (CHOOSE s \in tx[p].upd : s[1] = w.id)[2]]
     ELSE w : w \in withdrawals} \cup tx[p].ins

\* mutant: the ledger insert is not part of what the commit makes durable
CommittedLedgerLost(p) == ledger

CommittedLedger(p) == ledger \cup tx[p].led

\* ------------------------------------------------------------ pure helpers
\* mutant: the lookup matches on the key alone
getWithdrawalByIdempotencyAnyUser(p, userID, key) ==
    {w \in Visible(p) : w.idempotency_key = key}

\* mutant: the lookup matches on the key and a wrong user column, finding nothing
getWithdrawalByIdempotencyNoRows(p, userID, key) ==
    {w \in Visible(p) : w.user_id = 0 /\ w.idempotency_key = key}

getWithdrawalByIdempotency(p, userID, key) ==
    {w \in Visible(p) : w.user_id = userID /\ w.idempotency_key = key}

\* mutant: a row that is no longer pending never has the payload of a request
samePayloadPendingOnly(w, input) ==
    /\ w.amount = input.Amount
    /\ w.currency = input.Currency
    /\ w.destination = input.Destination
    /\ w.status = StatusPending

\* mutant: the destination is left out of the comparison
samePayloadNoDestination(w, input) ==
    /\ w.amount = input.Amount
    /\ w.currency = input.Currency

samePayload(w, input) ==
    /\ w.amount = input.Amount
    /\ w.currency = input.Currency
    /\ w.destination = input.Destination

\* mutants of the balance check: left out, off by one, turned around
InsufficientNever(bal, amount) == FALSE
InsufficientOffByOne(bal, amount) == bal <= amount
InsufficientTurned(bal, amount) == bal > amount

\* balance < input.Amount
Insufficient(bal, amount) == bal < amount

\* ------------------------------------------------------- leaving a call
\* mutant: the transaction is left open at return, its row locks still held
ReturnTxLeftOpen(p, err, w, u) ==
    /\ pc' = [pc EXCEPT ![p] = "idle"]
    /\ res' = [res EXCEPT ![p] = [err |-> err, w |-> w, u |-> u]]
    /\ tx' = [tx EXCEPT ![p] = EmptyTx]
    /\ UNCHANGED <<userLock, rowLock>>
    /\ balance' = [balance EXCEPT ![p] = 0]
    /\ created' = [created EXCEPT ![p] = ZeroWithdrawal]
    /\ call' = [call EXCEPT ![p] = NoCall]

\* The call of p returns (w, err); the deferred tx.Rollback drops whatever was
\* not committed, and the end of the transaction releases its row locks.  The
\* locals of the call are gone; res[p] is what the caller holds.
Return(p, err, w, u) ==
    /\ pc' = [pc EXCEPT ![p] = "idle"]
    /\ res' = [res EXCEPT ![p] = [err |-> err, w |-> w, u |-> u]]
    /\ tx' = [tx EXCEPT ![p] = EmptyTx]
    /\ userLock' = [x \in Users |-> IF userLock[x] = p THEN 0 ELSE userLock[x]]
    /\ rowLock' = [x \in WithdrawalIDs |-> IF rowLock[x] = p THEN 0 ELSE rowLock[x]]
    /\ balance' = [balance EXCEPT ![p] = 0]
    /\ created' = [created EXCEPT ![p] = ZeroWithdrawal]
    /\ call' = [call EXCEPT ![p] = NoCall]

Fail(p, err) == Return(p, err, ZeroWithdrawal, ZeroUser)

Commit(p) ==
    /\ users' = CommittedUsers(p)
    /\ withdrawals' = CommittedWithdrawals(p)
    /\ ledger' = CommittedLedger(p)

\* ---------------------------------------------------------------- Init
Init ==
    /\ users = <<>>
    /\ initial = <<>>
    /\ withdrawals = {}
    /\ ledger = {}
    /\ wseq = 0
    /\ lseq = 0
    /\ userLock = [x \in Users |-> 0]
    /\ rowLock = [x \in WithdrawalIDs |-> 0]
    /\ pc = [p \in Procs |-> "idle"]
    /\ call = [p \in Procs |-> NoCall]
    /\ balance = [p \in Procs |-> 0]
    /\ created = [p \in Procs |-> ZeroWithdrawal]
    /\ tx = [p \in Procs |-> EmptyTx]
    /\ res = [p \in Procs |-> NoResult]

\* ---------------------------------------------------------- Store.CreateUser
StartCreateUser(p) ==
    /\ pc[p] = "idle"
    /\ \E id \in Users, bal \in 0..MaxBalance :
        call' = [call EXCEPT ![p] = [NoCall EXCEPT !.op = "CreateUser",
                                                   !.UserID = id, !.Balance = bal]]
    /\ pc' = [pc EXCEPT ![p] = "cu_insert"]
    /\ res' = [res EXCEPT ![p] = NoResult]
    /\ UNCHANGED <<users, initial, withdrawals, ledger, wseq, lseq, userLock,
                   rowLock, balance, created, tx>>

\* mutant: the insert overwrites the row of an id that exists (an upsert)
UserUniqueViolationNever(id) == FALSE

\* PRIMARY KEY of users: a second insert of the id is a unique violation
UserUniqueViolation(id) == id \in DOMAIN users

\* INSERT INTO users (id, balance) VALUES ($1, $2) RETURNING ..., autocommitted
CreateUser(p) ==
    /\ pc[p] = "cu_insert"
    /\ LET id == call[p].UserID
           bal == call[p].Balance
       IN IF UserUniqueViolation(id)
          THEN /\ Return(p, ErrUserExists, ZeroWithdrawal, ZeroUser)
               /\ UNCHANGED <<users, initial>>
          ELSE /\ users' = [x \in DOMAIN users \cup {id} |->
                               IF x = id THEN bal ELSE users[x]]
               /\ initial' = [x \in DOMAIN initial \cup {id} |->
                               IF x = id THEN bal ELSE initial[x]]
               /\ Return(p, ErrNone, ZeroWithdrawal, [id |-> id, balance |-> bal])
    /\ UNCHANGED <<withdrawals, ledger, wseq, lseq>>

\* ---------------------------------------------------- Store.CreateWithdrawal
\* Inputs are those the handler lets through (validateCreateWithdrawal).
CreateInputs ==
    [op : {"CreateWithdrawal"}, UserID : Users, Amount : Amounts, Currency : {USDT},
     Destination : Destinations, IdempotencyKey : Keys, id : {0}, Balance : {0}]

\* Calls that may still draw a value from withdrawals_id_seq.
MayInsert == {q \in Procs : pc[q] \in {"cw_lock", "cw_lookup", "cw_insert"}}

\* BeginTx of a call whose input is one of inputs
BeginCreateWithdrawal(p, inputs) ==
    /\ pc[p] = "idle"
    /\ wseq + Cardinality(MayInsert) < MaxWithdrawals
    /\ \E input \in inputs : call' = [call EXCEPT ![p] = input]
    /\ pc' = [pc EXCEPT ![p] = "cw_lock"]
    /\ res' = [res EXCEPT ![p] = NoResult]
    /\ UNCHANGED <<users, initial, withdrawals, ledger, wseq, lseq, userLock,
                   rowLock, balance, created, tx>>

StartCreateWithdrawal(p) == BeginCreateWithdrawal(p, CreateInputs)

\* mutant: pgx.ErrNoRows of the select is returned as it is
SelectUserErrorUnmapped(userID) ==
    IF userID \notin DOMAIN users THEN ErrStorage ELSE ErrNone

\* errors.Is(err, pgx.ErrNoRows) of the locking select: ErrUserNotFound
SelectUserError(userID) ==
    IF userID \notin DOMAIN users THEN ErrUserNotFound ELSE ErrNone

\* SELECT balance FROM users WHERE id = $1 FOR UPDATE
CWLock(p) ==
    /\ pc[p] = "cw_lock"
    /\ LET userID == call[p].UserID IN
       IF SelectUserError(userID) # ErrNone
       THEN /\ Fail(p, SelectUserError(userID))
       ELSE /\ CanLockUser(p, userID)
            /\ userLock' = [userLock EXCEPT ![LockKey(userID)] = p]
            /\ balance' = [balance EXCEPT ![p] = users[userID]]
            /\ pc' = [pc EXCEPT ![p] = "cw_lookup"]
            /\ UNCHANGED <<rowLock, call, created, tx, res>>
    /\ UNCHANGED <<users, initial, withdrawals, ledger, wseq, lseq>>

\* mutant: a request refused for its amount leaves a row that holds its key
CWLookupReservesKey(p) ==
    /\ pc[p] = "cw_lookup"
    /\ LET input == call[p]
           existing == getWithdrawalByIdempotency(p, input.UserID, input.IdempotencyKey)
       IN IF existing # {}
          THEN /\ LET w == CHOOSE w \in existing : TRUE IN
                  IF ~samePayload(w, input)
                  THEN Fail(p, ErrIdempotencyConflict)
                  ELSE Return(p, ErrNone, w, ZeroUser)
               /\ UNCHANGED <<withdrawals, wseq>>
          ELSE IF Insufficient(balance[p], input.Amount)
               THEN /\ Fail(p, ErrInsufficientBalance)
                    /\ withdrawals' = withdrawals \cup
                          {[id |-> wseq + 1, user_id |-> input.UserID,
                            amount |-> input.Amount, currency |-> input.Currency,
                            destination |-> input.Destination,
                            status |-> StatusPending,
                            idempotency_key |-> input.IdempotencyKey]}
                    /\ wseq' = wseq + 1
               ELSE /\ pc' = [pc EXCEPT ![p] = "cw_insert"]
                    /\ UNCHANGED <<userLock, rowLock, call, balance, created, tx, res>>
                    /\ UNCHANGED <<withdrawals, wseq>>
    /\ UNCHANGED <<users, initial, ledger, lseq>>

\* mutant: the balance is tested before the lookup
CWLookupBalanceFirst(p) ==
    /\ pc[p] = "cw_lookup"
    /\ LET input == call[p]
           existing == getWithdrawalByIdempotency(p, input.UserID, input.IdempotencyKey)
       IN IF Insufficient(balance[p], input.Amount)
          THEN Fail(p, ErrInsufficientBalance)
          ELSE IF existing # {}
               THEN LET w == CHOOSE w \in existing : TRUE IN
                    IF ~samePayload(w, input)
                    THEN Fail(p, ErrIdempotencyConflict)
                    ELSE Return(p, ErrNone, w, ZeroUser)
               ELSE /\ pc' = [pc EXCEPT ![p] = "cw_insert"]
                    /\ UNCHANGED <<userLock, rowLock, call, balance, created, tx, res>>
    /\ UNCHANGED <<users, initial, withdrawals, ledger, wseq, lseq>>

\* getWithdrawalByIdempotency, samePayload and the balance check
CWLookup(p) ==
    /\ pc[p] = "cw_lookup"
    /\ LET input == call[p]
           existing == getWithdrawalByIdempotency(p, input.UserID, input.IdempotencyKey)
       IN IF existing # {}
          THEN LET w == CHOOSE w \in existing : TRUE IN
               IF ~samePayload(w, input)
               THEN Fail(p, ErrIdempotencyConflict)
               ELSE Return(p, ErrNone, w, ZeroUser)
          ELSE IF Insufficient(balance[p], input.Amount)
               THEN Fail(p, ErrInsufficientBalance)
               ELSE /\ pc' = [pc EXCEPT ![p] = "cw_insert"]
                    /\ UNCHANGED <<userLock, rowLock, call, balance, created, tx, res>>
    /\ UNCHANGED <<users, initial, withdrawals, ledger, wseq, lseq>>

\* mutant: the row is inserted with the status confirmed
NewWithdrawalConfirmed(input, id) ==
    [id |-> id, user_id |-> input.UserID, amount |-> input.Amount,
     currency |-> input.Currency, destination |-> input.Destination,
     status |-> StatusConfirmed, idempotency_key |-> input.IdempotencyKey]

NewWithdrawal(input, id) ==
    [id |-> id, user_id |-> input.UserID, amount |-> input.Amount,
     currency |-> input.Currency, destination |-> input.Destination,
     status |-> StatusPending, idempotency_key |-> input.IdempotencyKey]

\* A statement that fails puts the transaction of PostgreSQL in the aborted
\* state: until ROLLBACK every statement in it, the query of a lookup included,
\* fails with 25P02 and returns no row.
QueryAfterError(rows) == [err |-> ErrTxAborted, rows |-> {}]

\* insertWithdrawal; on a unique violation the lookup is run again in the same
\* transaction, and when that lookup returns an error (gerr != nil) the error
\* of the insert is returned.  The default nextval of the id column is drawn
\* before the unique index is checked, so the failed insert uses up an id.
CWInsert(p) ==
    /\ pc[p] = "cw_insert"
    /\ LET input == call[p] IN
       /\ ~UniqueWait(p, input.UserID, input.IdempotencyKey)
       /\ IF UniqueViolation(p, input.UserID, input.IdempotencyKey)
          THEN LET again == QueryAfterError(
                                getWithdrawalByIdempotency(p, input.UserID,
                                                           input.IdempotencyKey))
                   gerr == again.err
               IN /\ wseq' = wseq + 1
                  /\ IF gerr = ErrNone
                     THEN LET existing == CHOOSE w \in again.rows : TRUE IN
                          IF ~samePayload(existing, input)
                          THEN Fail(p, ErrIdempotencyConflict)
                          ELSE Return(p, ErrNone, existing, ZeroUser)
                     ELSE Fail(p, ErrUniqueViolation)
          ELSE LET w == NewWithdrawal(input, wseq + 1) IN
               /\ wseq' = wseq + 1
               /\ tx' = [tx EXCEPT ![p].ins = {w}]
               /\ created' = [created EXCEPT ![p] = w]
               /\ pc' = [pc EXCEPT ![p] = "cw_debit"]
               /\ UNCHANGED <<userLock, rowLock, call, balance, res>>
    /\ UNCHANGED <<users, initial, withdrawals, ledger, lseq>>

\* mutant: the debit is executed on the pool, outside the transaction
CWDebitOutsideTx(p) ==
    /\ pc[p] = "cw_debit"
    /\ LET input == call[p]
           newBalance == users[input.UserID] - input.Amount
       IN /\ BalanceCheck(newBalance)
          /\ users' = [users EXCEPT ![input.UserID] = newBalance]
          /\ pc' = [pc EXCEPT ![p] = "cw_ledger"]
    /\ UNCHANGED <<initial, withdrawals, ledger, wseq, lseq, userLock, rowLock,
                   call, balance, created, tx, res>>

\* UPDATE users SET balance = balance - $1 WHERE id = $2
CWDebit(p) ==
    /\ pc[p] = "cw_debit"
    /\ LET input == call[p]
           newBalance == users[input.UserID] - input.Amount
       IN /\ CanLockUser(p, input.UserID)
          /\ IF ~BalanceCheck(newBalance)
             THEN Fail(p, ErrCheckViolation)
             ELSE /\ tx' = [tx EXCEPT ![p].bal = {<<input.UserID, newBalance>>}]
                  /\ userLock' = [userLock EXCEPT ![LockKey(input.UserID)] = p]
                  /\ pc' = [pc EXCEPT ![p] = "cw_ledger"]
                  /\ UNCHANGED <<rowLock, call, balance, created, res>>
    /\ UNCHANGED <<users, initial, withdrawals, ledger, wseq, lseq>>

\* mutant: the entry is written with the direction credit
NewLedgerEntryCredit(input, withdrawalID, id) ==
    [id |-> id, user_id |-> input.UserID, withdrawal_id |-> withdrawalID,
     amount |-> input.Amount, currency |-> input.Currency,
     direction |-> "credit"]

\* insertLedgerEntry
NewLedgerEntry(input, withdrawalID, id) ==
    [id |-> id, user_id |-> input.UserID, withdrawal_id |-> withdrawalID,
     amount |-> input.Amount, currency |-> input.Currency,
     direction |-> DirectionDebit]

CWLedger(p) ==
    /\ pc[p] = "cw_ledger"
    /\ lseq' = lseq + 1
    /\ tx' = [tx EXCEPT ![p].led = {NewLedgerEntry(call[p], created[p].id, lseq + 1)}]
    /\ pc' = [pc EXCEPT ![p] = "cw_commit"]
    /\ UNCHANGED <<users, initial, withdrawals, ledger, wseq, userLock, rowLock,
                   call, balance, created, res>>

\* tx.Commit; return created, nil
CWCommit(p) ==
    /\ pc[p] = "cw_commit"
    /\ Commit(p)
    /\ Return(p, ErrNone, created[p], ZeroUser)
    /\ UNCHANGED <<initial, wseq, lseq>>

CreateWithdrawalStep(p) ==
    \/ CWLock(p)
    \/ CWLookup(p)
    \/ CWInsert(p)
    \/ CWDebit(p)
    \/ CWLedger(p)
    \/ CWCommit(p)

\* ------------------------------------------------------- Store.GetWithdrawal
\* the call s.store.GetWithdrawal(ctx, id) is made
BeginGetWithdrawal(p, id) ==
    /\ pc[p] = "idle"
    /\ call' = [call EXCEPT ![p] = [NoCall EXCEPT !.op = "GetWithdrawal", !.id = id]]
    /\ pc' = [pc EXCEPT ![p] = "gw_query"]
    /\ res' = [res EXCEPT ![p] = NoResult]
    /\ UNCHANGED <<users, initial, withdrawals, ledger, wseq, lseq, userLock,
                   rowLock, balance, created, tx>>

StartGetWithdrawal(p) == \E id \in WithdrawalIDs : BeginGetWithdrawal(p, id)

\* mutant: pgx.ErrNoRows of the select is returned as it is
SelectWithdrawalErrorUnmapped(rows) ==
    IF rows = {} THEN ErrStorage ELSE ErrNone

\* errors.Is(err, pgx.ErrNoRows) of the select by id: ErrNotFound
SelectWithdrawalError(rows) ==
    IF rows = {} THEN ErrNotFound ELSE ErrNone

\* SELECT ... FROM withdrawals WHERE id = $1 on the pool
GetWithdrawal(p) ==
    /\ pc[p] = "gw_query"
    /\ LET rows == {w \in withdrawals : w.id = call[p].id} IN
       IF SelectWithdrawalError(rows) # ErrNone
       THEN Fail(p, SelectWithdrawalError(rows))
       ELSE Return(p, ErrNone, CHOOSE w \in rows : TRUE, ZeroUser)
    /\ UNCHANGED <<users, initial, withdrawals, ledger, wseq, lseq>>

\* --------------------------------------------------- Store.ConfirmWithdrawal
\* BeginTx of the call s.store.ConfirmWithdrawal(ctx, id)
BeginConfirmWithdrawal(p, id) ==
    /\ pc[p] = "idle"
    /\ call' = [call EXCEPT ![p] = [NoCall EXCEPT !.op = "ConfirmWithdrawal", !.id = id]]
    /\ pc' = [pc EXCEPT ![p] = "cf_lock"]
    /\ res' = [res EXCEPT ![p] = NoResult]
    /\ UNCHANGED <<users, initial, withdrawals, ledger, wseq, lseq, userLock,
                   rowLock, balance, created, tx>>

StartConfirmWithdrawal(p) == \E id \in WithdrawalIDs : BeginConfirmWithdrawal(p, id)

\* mutant: the test for a row that is confirmed already is left out
AlreadyConfirmedNever(w) == FALSE

\* w.Status == StatusConfirmed
AlreadyConfirmed(w) == w.status = StatusConfirmed

\* the row gets past w.Status == StatusConfirmed and fails w.Status != StatusPending
InvalidStatus(w) == ~AlreadyConfirmed(w) /\ w.status # StatusPending

\* SELECT ... FROM withdrawals WHERE id = $1 FOR UPDATE, then the status tests
CFLock(p) ==
    /\ pc[p] = "cf_lock"
    /\ LET id == call[p].id
           rows == {w \in withdrawals : w.id = id}
       IN IF SelectWithdrawalError(rows) # ErrNone
          THEN Fail(p, SelectWithdrawalError(rows))
          ELSE LET w == CHOOSE w \in rows : TRUE IN
               /\ CanLockRow(p, id)
               /\ IF InvalidStatus(w)
                  THEN Fail(p, ErrInvalidStatus)
                  ELSE /\ rowLock' = [rowLock EXCEPT ![id] = p]
                       /\ created' = [created EXCEPT ![p] = w]
                       /\ pc' = [pc EXCEPT ![p] =
                                   IF AlreadyConfirmed(w)
                                   THEN "cf_commit" ELSE "cf_update"]
                       /\ UNCHANGED <<userLock, call, balance, tx, res>>
    /\ UNCHANGED <<users, initial, withdrawals, ledger, wseq, lseq>>

\* UPDATE withdrawals SET status = $1 WHERE id = $2; w.Status = StatusConfirmed
CFUpdate(p) ==
    /\ pc[p] = "cf_update"
    /\ tx' = [tx EXCEPT ![p].upd = {<<call[p].id, StatusConfirmed>>}]
    /\ created' = [created EXCEPT ![p].status = StatusConfirmed]
    /\ pc' = [pc EXCEPT ![p] = "cf_commit"]
    /\ UNCHANGED <<users, initial, withdrawals, ledger, wseq, lseq, userLock,
                   rowLock, call, balance, res>>

\* tx.Commit; return w, nil
CFCommit(p) ==
    /\ pc[p] = "cf_commit"
    /\ Commit(p)
    /\ Return(p, ErrNone, created[p], ZeroUser)
    /\ UNCHANGED <<initial, wseq, lseq>>

ConfirmWithdrawalStep(p) ==
    \/ CFLock(p)
    \/ CFUpdate(p)
    \/ CFCommit(p)

\* ------------------------------------------------------------ the program
Next ==
    \E p \in Procs :
        \/ StartCreateUser(p)
        \/ CreateUser(p)
        \/ StartCreateWithdrawal(p)
        \/ CreateWithdrawalStep(p)
        \/ StartGetWithdrawal(p)
        \/ GetWithdrawal(p)
        \/ StartConfirmWithdrawal(p)
        \/ ConfirmWithdrawalStep(p)

Spec == Init /\ [][Next]_vars

\* ------------------------------------------- the store with storage failures
\* Any statement of an open transaction (the locking select, the lookup, the
\* insert, the debit, the ledger insert, the update, the commit) and either
\* statement on the pool may fail with an error of the storage layer: the call
\* returns it and the deferred Rollback runs.
StorageFail(p) ==
    /\ pc[p] \in CreatePCs \cup ConfirmPCs \cup UserPCs \cup GetPCs
    /\ Fail(p, ErrStorage)
    /\ UNCHANGED <<users, initial, withdrawals, ledger, wseq, lseq>>

NextFault ==
    \/ Next
    \/ \E p \in Procs : StorageFail(p)

SpecFault == Init /\ [][NextFault]_vars

\* ------------------------------------------- the two creating HTTP handlers
\* A string of a request body is a sequence of pieces, each a space or a run of
\* other characters.
RECURSIVE TrimLeft(_)
TrimLeft(str) ==
    IF str # <<>> /\ Head(str) = " " THEN TrimLeft(Tail(str)) ELSE str

RECURSIVE TrimRight(_)
TrimRight(str) ==
    IF str # <<>> /\ str[Len(str)] = " "
    THEN TrimRight(SubSeq(str, 1, Len(str) - 1))
    ELSE str

\* strings.TrimSpace
TrimSpace(str) == TrimRight(TrimLeft(str))

\* the Go string of a sequence of pieces
RECURSIVE Text(_)
Text(str) == IF str = <<>> THEN "" ELSE Head(str) \o Text(Tail(str))

\* decoded bodies of POST /v1/withdrawals
CreateWithdrawalRequests ==
    [UserID : {0} \cup Users,
     Amount : 0..MaxAmount,
     Currency : {<<" ", "USDT">>, <<"EUR">>},
     Destination : {<<"addr", "2", " ">>, <<" ">>},
     IdempotencyKey : {<<"k1">>, <<" ", "k2", " ">>, <<>>}]

\* decoded bodies of POST /v1/users
CreateUserRequests == [ID : {0} \cup Users, Balance : (-1)..MaxBalance]

\* mutant: the amount is not validated
validateCreateWithdrawalNoAmount(req) ==
    IF req.UserID <= 0 THEN "invalid user_id"
    ELSE IF Text(TrimSpace(req.Currency)) # "USDT" THEN "invalid currency"
    ELSE IF Text(TrimSpace(req.Destination)) = "" THEN "invalid destination"
    ELSE IF Text(TrimSpace(req.IdempotencyKey)) = "" THEN "invalid idempotency_key"
    ELSE ErrNone

validateCreateWithdrawal(req) ==
    IF req.UserID <= 0 THEN "invalid user_id"
    ELSE IF req.Amount <= 0 THEN "invalid amount"
    ELSE IF Text(TrimSpace(req.Currency)) # "USDT" THEN "invalid currency"
    ELSE IF Text(TrimSpace(req.Destination)) = "" THEN "invalid destination"
    ELSE IF Text(TrimSpace(req.IdempotencyKey)) = "" THEN "invalid idempotency_key"
    ELSE ErrNone

validateCreateUser(req) ==
    IF req.ID <= 0 THEN "invalid id"
    ELSE IF req.Balance < 0 THEN "invalid balance"
    ELSE ErrNone

\* writeError(w, http.StatusBadRequest, "invalid_request"); return
Reject(p) ==
    /\ res' = [res EXCEPT ![p] = [err |-> ErrInvalidRequest, w |-> ZeroWithdrawal,
                                  u |-> ZeroUser]]
    /\ UNCHANGED <<pc, call>>

\* validation, then s.store.CreateWithdrawal with the trimmed input
handleCreateWithdrawal(p) ==
    /\ pc[p] = "idle"
    /\ \E req \in CreateWithdrawalRequests :
        IF validateCreateWithdrawal(req) # ErrNone
        THEN Reject(p)
        ELSE /\ wseq + Cardinality(MayInsert) < MaxWithdrawals
             /\ call' = [call EXCEPT ![p] =
                           [NoCall EXCEPT !.op = "CreateWithdrawal",
                                          !.UserID = req.UserID,
                                          !.Amount = req.Amount,
                                          !.Currency = Text(TrimSpace(req.Currency)),
                                          !.Destination = Text(TrimSpace(req.Destination)),
                                          !.IdempotencyKey = Text(TrimSpace(req.IdempotencyKey))]]
             /\ pc' = [pc EXCEPT ![p] = "cw_lock"]
             /\ res' = [res EXCEPT ![p] = NoResult]
    /\ UNCHANGED <<users, initial, withdrawals, ledger, wseq, lseq, userLock,
                   rowLock, balance, created, tx>>

\* validation, then s.store.CreateUser
handleCreateUser(p) ==
    /\ pc[p] = "idle"
    /\ \E req \in CreateUserRequests :
        IF validateCreateUser(req) # ErrNone
        THEN Reject(p)
        ELSE /\ call' = [call EXCEPT ![p] =
                           [NoCall EXCEPT !.op = "CreateUser", !.UserID = req.ID,
                                          !.Balance = req.Balance]]
             /\ pc' = [pc EXCEPT ![p] = "cu_insert"]
             /\ res' = [res EXCEPT ![p] = NoResult]
    /\ UNCHANGED <<users, initial, withdrawals, ledger, wseq, lseq, userLock,
                   rowLock, balance, created, tx>>

NextApi ==
    \E p \in Procs :
        \/ handleCreateUser(p)
        \/ CreateUser(p)
        \/ handleCreateWithdrawal(p)
        \/ CreateWithdrawalStep(p)

SpecApi == Init /\ [][NextApi]_vars

\* ------------------------------------------------- the router and its gate
\* cfg.AuthToken: AUTH_TOKEN trimmed, refused by loadConfig when empty
AuthToken == "devtoken"

ErrUnauthorized == "unauthorized"
ErrMethodNotAllowed == "method_not_allowed"
ErrInvalidID == "invalid_id"
ErrNoRoute == "not_found"

MethodGet == "GET"
MethodPost == "POST"
Methods == {MethodGet, MethodPost}

\* Values of the header Authorization, as sequences of pieces, each a space or
\* a run of other characters; <<>> is the header that is absent.
Headers ==
    {<<>>,
     <<"Bearer", " ", "devtoken">>,
     <<"bearer", " ", " ", "devtoken", " ">>,
     <<"Bearer", " ", "devtokeX">>,
     <<"Bearer", " ", "dev">>,
     <<"Bearer", " ", "devtoken", " ", "x">>,
     <<"Bearer", " ">>,
     <<"Bearer">>,
     <<"Basic", " ", "devtoken">>,
     <<"devtoken">>,
     <<" ", "Bearer", " ", "devtoken">>}

\* the rest of the path after /v1/withdrawals/, split at "/"
Paths ==
    {<<"">>, <<"0">>, <<"1">>, <<"2">>, <<"x">>,
     <<"1", "confirm">>, <<"2", "confirm">>, <<"0", "confirm">>, <<"x", "confirm">>,
     <<"1", "cancel">>}

\* strconv.ParseInt(str, 10, 64): the value, or -1 for the error
ParseInt(str) ==
    IF str = "0" THEN 0
    ELSE IF str = "1" THEN 1
    ELSE IF str = "2" THEN 2
    ELSE -1

\* the index of the first space of the header, 0 when it has none
RECURSIVE IndexSpace(_, _)
IndexSpace(header, i) ==
    IF i > Len(header) THEN 0
    ELSE IF header[i] = " " THEN i
    ELSE IndexSpace(header, i + 1)

\* strings.EqualFold(str, "Bearer")
EqualFoldBearer(str) == str \in {"Bearer", "bearer", "BEARER"}

\* strings.SplitN(header, " ", 2), the scheme, and the rest trimmed
extractBearerToken(header) ==
    IF header = <<>> THEN ""
    ELSE LET i == IndexSpace(header, 1) IN
         IF i = 0 THEN ""
         ELSE IF ~EqualFoldBearer(Text(SubSeq(header, 1, i - 1))) THEN ""
         ELSE Text(TrimSpace(SubSeq(header, i + 1, Len(header))))

\* mutant: the lengths are compared and the bytes are not
secureCompareLengthOnly(a, b) == Len(a) = Len(b)

\* the lengths, then subtle.ConstantTimeCompare
secureCompare(a, b) ==
    IF Len(a) # Len(b) THEN FALSE ELSE a = b

\* writeError(w, status, code); return: the request is answered without a call
\* of the store
writeError(p, code) ==
    /\ pc[p] = "idle"
    /\ res' = [res EXCEPT ![p] = [err |-> code, w |-> ZeroWithdrawal, u |-> ZeroUser]]
    /\ UNCHANGED <<users, initial, withdrawals, ledger, wseq, lseq, userLock,
                   rowLock, pc, call, balance, created, tx>>

handleUsers(p, method) ==
    IF method = MethodPost
    THEN handleCreateUser(p)
    ELSE writeError(p, ErrMethodNotAllowed)

handleWithdrawals(p, method) ==
    IF method = MethodPost
    THEN handleCreateWithdrawal(p)
    ELSE writeError(p, ErrMethodNotAllowed)

handleConfirmWithdrawal(p, method, id) ==
    IF method # MethodPost
    THEN writeError(p, ErrMethodNotAllowed)
    ELSE BeginConfirmWithdrawal(p, id)

handleWithdrawalByID(p, method, parts) ==
    IF parts = <<"">> THEN writeError(p, ErrNoRoute)
    ELSE IF Len(parts) = 2 /\ parts[2] = "confirm"
    THEN IF ParseInt(parts[1]) <= 0
         THEN writeError(p, ErrInvalidID)
         ELSE handleConfirmWithdrawal(p, method, ParseInt(parts[1]))
    ELSE IF Len(parts) # 1 THEN writeError(p, ErrNoRoute)
    ELSE IF method # MethodGet THEN writeError(p, ErrMethodNotAllowed)
    ELSE IF ParseInt(parts[1]) <= 0 THEN writeError(p, ErrInvalidID)
    ELSE BeginGetWithdrawal(p, ParseInt(parts[1]))

\* the three patterns of the mux
Routes(p, method) ==
    \/ handleUsers(p, method)
    \/ handleWithdrawals(p, method)
    \/ \E parts \in Paths : handleWithdrawalByID(p, method, parts)

\* one request with the given header Authorization, to any route
ServeHTTP(p, header) ==
    IF ~secureCompare(extractBearerToken(header), AuthToken)
    THEN writeError(p, ErrUnauthorized)
    ELSE \E method \in Methods : Routes(p, method)

authMiddleware(p) == \E header \in Headers : ServeHTTP(p, header)

\* the client whose requests pass through the router, one after the other
Client == CHOOSE p \in Procs : TRUE

NextAuth ==
    \/ authMiddleware(Client)
    \/ CreateUser(Client)
    \/ CreateWithdrawalStep(Client)
    \/ GetWithdrawal(Client)
    \/ ConfirmWithdrawalStep(Client)

SpecAuth == Init /\ [][NextAuth]_vars

\* ------------------------------------------------ concurrent creation alone
\* One user with a balance, and calls of CreateWithdrawal already begun.
InitCreating(userID, bal, calls) ==
    /\ users = [x \in {userID} |-> bal]
    /\ initial = [x \in {userID} |-> bal]
    /\ withdrawals = {}
    /\ ledger = {}
    /\ wseq = 0
    /\ lseq = 0
    /\ userLock = [x \in Users |-> 0]
    /\ rowLock = [x \in WithdrawalIDs |-> 0]
    /\ pc = [p \in Procs |-> IF calls[p] = NoCall THEN "idle" ELSE "cw_lock"]
    /\ call = calls
    /\ balance = [p \in Procs |-> 0]
    /\ created = [p \in Procs |-> ZeroWithdrawal]
    /\ tx = [p \in Procs |-> EmptyTx]
    /\ res = [p \in Procs |-> NoResult]

NextCreate == \E p \in Procs : CreateWithdrawalStep(p)

\* Two concurrent calls for one user, distinct keys, each amount within the
\* balance, the two together beyond it.
InitRace ==
    \E userID \in Users, bal \in 0..MaxBalance, calls \in [Procs -> CreateInputs \cup {NoCall}] :
        /\ Cardinality({p \in Procs : calls[p] # NoCall}) = 2
        /\ \A p \in Procs : calls[p] # NoCall =>
              /\ calls[p].UserID = userID
              /\ calls[p].Amount <= bal
        /\ \A p, q \in Procs : (p # q /\ calls[p] # NoCall /\ calls[q] # NoCall) =>
              /\ calls[p].IdempotencyKey # calls[q].IdempotencyKey
              /\ calls[p].Amount + calls[q].Amount > bal
        /\ InitCreating(userID, bal, calls)

SpecRace == InitRace /\ [][NextCreate]_vars

\* Every process issues the same request at once, its amount within the balance.
InitSameRequest ==
    \E bal \in 0..MaxBalance, input \in CreateInputs :
        /\ input.Amount <= bal
        /\ InitCreating(input.UserID, bal, [p \in Procs |-> input])

SpecSameRequest == InitSameRequest /\ [][NextCreate]_vars

\* ----------------------------------------------- one user with ample funds
\* A seeded user whose balance covers every request the sequence can number,
\* and creation calls, any of whose statements may fail, issued one after and
\* beside the other.
InitFunded ==
    \E userID \in Users :
        InitCreating(userID, MaxAmount * MaxWithdrawals, [p \in Procs |-> NoCall])

NextFunded ==
    \E p \in Procs :
        \/ StartCreateWithdrawal(p)
        \/ CreateWithdrawalStep(p)
        \/ StorageFail(p)

SpecFunded == InitFunded /\ [][NextFunded]_vars

\* -------------------------------------------- concurrent confirmation alone
\* One committed pending withdrawal with its debit and ledger entry, and one or
\* more calls of ConfirmWithdrawal for it already begun.
InitConfirming ==
    \E input \in CreateInputs, bal \in 0..MaxBalance, callers \in SUBSET Procs :
        /\ callers # {}
        /\ input.Amount <= bal
        /\ users = [x \in {input.UserID} |-> bal - input.Amount]
        /\ initial = [x \in {input.UserID} |-> bal]
        /\ withdrawals = {NewWithdrawal(input, 1)}
        /\ ledger = {NewLedgerEntry(input, 1, 1)}
        /\ wseq = 1
        /\ lseq = 1
        /\ userLock = [x \in Users |-> 0]
        /\ rowLock = [x \in WithdrawalIDs |-> 0]
        /\ pc = [p \in Procs |-> IF p \in callers THEN "cf_lock" ELSE "idle"]
        /\ call = [p \in Procs |->
                     IF p \in callers
                     THEN [NoCall EXCEPT !.op = "ConfirmWithdrawal", !.id = 1]
                     ELSE NoCall]
        /\ balance = [p \in Procs |-> 0]
        /\ created = [p \in Procs |-> ZeroWithdrawal]
        /\ tx = [p \in Procs |-> EmptyTx]
        /\ res = [p \in Procs |-> NoResult]

NextConfirm == \E p \in Procs : ConfirmWithdrawalStep(p)

SpecConfirmRace == InitConfirming /\ [][NextConfirm]_vars

\* ------------------------------------- a second writer of the withdrawals table
\* Another client of the database commits a withdrawal row for an existing
\* user without taking the lock on the user's row first (a plain autocommitted
\* INSERT): the one way a row with the request's (user id, idempotency key) can
\* be committed between the lookup of a creation call and its insert.  The
\* insert is subject to the constraints of the table like any other.  Storage
\* is reliable here.
ForeignInsert ==
    /\ wseq + Cardinality(MayInsert) < MaxWithdrawals
    /\ \E input \in CreateInputs :
        /\ input.UserID \in DOMAIN users
        /\ \A w \in withdrawals :
              ~(w.user_id = input.UserID /\ w.idempotency_key = input.IdempotencyKey)
        /\ \A q \in Procs : \A w \in tx[q].ins :
              ~(w.user_id = input.UserID /\ w.idempotency_key = input.IdempotencyKey)
        /\ withdrawals' = withdrawals \cup {NewWithdrawal(input, wseq + 1)}
    /\ wseq' = wseq + 1
    /\ UNCHANGED <<users, initial, ledger, lseq, userLock, rowLock, pc, call,
                   balance, created, tx, res>>

NextForeign ==
    \/ \E p \in Procs : StartCreateWithdrawal(p) \/ CreateWithdrawalStep(p)
    \/ ForeignInsert

SpecForeign == InitFunded /\ [][NextForeign]_vars

\* ------------------------------------------------- the store, fairly scheduled
\* Creation and confirmation calls on a funded user.  A statement sent to the
\* storage completes (weak fairness of every step that waits for nothing), and
\* a call that waits for a row lock is granted it when the holder's
\* transaction ends, ahead of calls that ask later: PostgreSQL queues the
\* waiters of a lock (strong fairness of the steps of a call).  A statement may
\* also fail; no fairness is asked of that.
NextLive ==
    \E p \in Procs :
        \/ StartCreateWithdrawal(p)
        \/ CreateWithdrawalStep(p)
        \/ StartConfirmWithdrawal(p)
        \/ ConfirmWithdrawalStep(p)
        \/ StorageFail(p)

Fairness ==
    \A p \in Procs :
        /\ SF_vars(CreateWithdrawalStep(p))
        /\ SF_vars(ConfirmWithdrawalStep(p))

SpecLive == InitFunded /\ [][NextLive]_vars /\ Fairness

\* ------------------------------------------- one key asked for again and again
\* One user with the balance MaxAmount, and requests that all carry the user's
\* id and the key RetryKey, with amounts within the balance and one beyond it
\* and any destination: whatever call has failed or succeeded before, a new
\* call asks for the same (user, key).  Storage is reliable here.
RetryKey == "k1"

RetryInputs ==
    [op : {"CreateWithdrawal"}, UserID : DOMAIN users, Amount : 1..(MaxAmount + 1),
     Currency : {USDT}, Destination : Destinations, IdempotencyKey : {RetryKey},
     id : {0}, Balance : {0}]

StartRetry(p) == BeginCreateWithdrawal(p, RetryInputs)

InitRetry ==
    \E userID \in Users : InitCreating(userID, MaxAmount, [p \in Procs |-> NoCall])

NextRetry ==
    \E p \in Procs :
        \/ StartRetry(p)
        \/ CreateWithdrawalStep(p)

SpecRetry == InitRetry /\ [][NextRetry]_vars

\* ================================================================ properties
RECURSIVE SumAmounts(_)
SumAmounts(rows) ==
    IF rows = {} THEN 0
    ELSE LET r == CHOOSE r \in rows : TRUE IN r.amount + SumAmounts(rows \ {r})

\* no structured event logged
NoEvent == [event |-> "", reason |-> ""]

\* mutant: the handlers log the events of success only
LogEventSuccessOnly(op, err) ==
    IF err # ErrNone THEN NoEvent
    ELSE IF op = "CreateUser" THEN [event |-> "user_created", reason |-> ""]
    ELSE IF op = "CreateWithdrawal" THEN [event |-> "withdrawal_created", reason |-> ""]
    ELSE IF op = "ConfirmWithdrawal" THEN [event |-> "withdrawal_confirmed", reason |-> ""]
    ELSE NoEvent

\* What the handler that made the call logs with s.logEvent when the store has
\* returned err: handleCreateUser, handleCreateWithdrawal and
\* handleConfirmWithdrawal log an event of success or of failure with the
\* reason they map the error to; handleWithdrawalByID logs no event for GET.
\* The log is written and never read, so it is the output of the returning
\* step and no variable.
LogEvent(op, err) ==
    IF op = "CreateUser"
    THEN IF err = ErrNone THEN [event |-> "user_created", reason |-> ""]
         ELSE [event |-> "user_create_failed",
               reason |-> IF err = ErrUserExists THEN "user_exists"
                          ELSE "internal_error"]
    ELSE IF op = "CreateWithdrawal"
    THEN IF err = ErrNone THEN [event |-> "withdrawal_created", reason |-> ""]
         ELSE [event |-> "withdrawal_create_failed",
               reason |-> IF err = ErrInsufficientBalance THEN "insufficient_balance"
                          ELSE IF err = ErrIdempotencyConflict THEN "idempotency_conflict"
                          ELSE IF err = ErrUserNotFound THEN "user_not_found"
                          ELSE "internal_error"]
    ELSE IF op = "ConfirmWithdrawal"
    THEN IF err = ErrNone THEN [event |-> "withdrawal_confirmed", reason |-> ""]
         ELSE [event |-> "withdrawal_confirm_failed",
               reason |-> IF err = ErrNotFound THEN "not_found"
                          ELSE IF err = ErrInvalidStatus THEN "invalid_status"
                          ELSE "internal_error"]
    ELSE NoEvent

\* the call of p returns in this step
Returns(p) == pc[p] # "idle" /\ pc'[p] = "idle"

\* committed rows of the pair (user, key) of p's request
RowsOfRequest(p) ==
    {w \in withdrawals : w.user_id = call[p].UserID
                         /\ w.idempotency_key = call[p].IdempotencyKey}

MatchesRequest(w, p) ==
    /\ w.amount = call[p].Amount
    /\ w.currency = call[p].Currency
    /\ w.destination = call[p].Destination

AllIdle == \A p \in Procs : pc[p] = "idle"

\* C1: every balance, committed or written by an open transaction, is >= 0, and
\* no call ever ends on a violation of CHECK (balance >= 0): the balance test
\* made under the row lock keeps the debit within the balance.
C1_BalanceNeverNegative ==
    /\ \A u \in DOMAIN users : users[u] >= 0
    /\ \A p \in Procs : \A b \in tx[p].bal : b[2] >= 0
    /\ \A p \in Procs : res[p].err # ErrCheckViolation

\* a debit took a balance down to exactly zero and was committed
C1_Witness ==
    \E u \in DOMAIN users :
        /\ users[u] = 0
        /\ initial[u] > 0
        /\ \E w \in withdrawals : w.user_id = u

\* C2: of two concurrent requests of one user with distinct keys, each within
\* the balance and together beyond it, exactly one succeeds, the other gets
\* ErrInsufficientBalance, and the balance ends at the initial balance minus
\* the amount of the one that succeeded.
C2_ExactlyOneWins ==
    AllIdle =>
        \E p \in Procs : \E q \in Procs \ {p} :
            /\ res[p].err = ErrNone
            /\ res[q].err = ErrInsufficientBalance
            /\ withdrawals = {res[p].w}
            /\ \A u \in DOMAIN users : users[u] = initial[u] - res[p].w.amount
            /\ \A r \in Procs \ {p, q} : res[r] = NoResult

\* both calls have returned, one with its row and one refused
C2_Witness ==
    /\ AllIdle
    /\ \E p, q \in Procs :
        /\ res[p].err = ErrNone
        /\ res[q].err = ErrInsufficientBalance
        /\ res[p].w \in withdrawals
        /\ \A u \in DOMAIN users : users[u] = initial[u] - res[p].w.amount

\* C3: a request whose (user, key) already has a row with the same payload
\* returns that row's id and changes nothing; rows keep their id, user, key and
\* payload for ever; so every repetition returns the id of the first call, and
\* there is one row per (user, key), one debit entry per row, and the balance
\* is the initial balance less one amount per row.
C3_StateOK ==
    /\ \A w1, w2 \in withdrawals :
          (w1.user_id = w2.user_id /\ w1.idempotency_key = w2.idempotency_key) => w1 = w2
    /\ \A w \in withdrawals :
          Cardinality({e \in ledger : e.withdrawal_id = w.id /\ e.direction = DirectionDebit}) = 1
    /\ Cardinality(ledger) = Cardinality(withdrawals)
    /\ \A u \in DOMAIN users :
          users[u] = initial[u] - SumAmounts({w \in withdrawals : w.user_id = u})

C3_ReplayStep(p) ==
    (pc[p] = "cw_lookup" /\ pc'[p] # "cw_lookup"
        /\ \E w \in RowsOfRequest(p) : MatchesRequest(w, p))
    => /\ pc'[p] = "idle"
       /\ res'[p].err = ErrNone
       /\ res'[p].w \in RowsOfRequest(p)
       /\ db' = db

C3_RowsKept ==
    \A w \in withdrawals : \E w2 \in withdrawals' :
        /\ w2.id = w.id
        /\ w2.user_id = w.user_id
        /\ w2.idempotency_key = w.idempotency_key
        /\ w2.amount = w.amount
        /\ w2.destination = w.destination

C3_IdempotentRepeat ==
    /\ []C3_StateOK
    /\ [][C3_RowsKept /\ \A p \in Procs : C3_ReplayStep(p)]_vars

\* a repetition has returned the row that exists, and nothing else exists
C3_Witness ==
    \E p, q \in Procs :
        /\ p # q
        /\ res[p].err = ErrNone /\ res[q].err = ErrNone
        /\ res[p].w.id # 0
        /\ res[p].w = res[q].w
        /\ withdrawals = {res[p].w}
        /\ Cardinality(ledger) = 1

\* C4: when every process issues the same request at once (amount within the
\* balance), every call that has returned has succeeded with one and the same
\* row, and once all have returned there is one row, one debit entry, and the
\* balance is down by the amount once.
C4_SameRequestOnce ==
    /\ \A p \in Procs : pc[p] = "idle" => res[p].err = ErrNone
    /\ \A p, q \in Procs : (pc[p] = "idle" /\ pc[q] = "idle") => res[p].w.id = res[q].w.id
    /\ AllIdle =>
          /\ Cardinality(withdrawals) = 1
          /\ Cardinality(ledger) = 1
          /\ \A p \in Procs : res[p].w \in withdrawals
          /\ \A e \in ledger : \A p \in Procs :
                e.withdrawal_id = res[p].w.id /\ e.amount = res[p].w.amount
          /\ \A u \in DOMAIN users :
                \A p \in Procs : users[u] = initial[u] - res[p].w.amount

\* all the concurrent identical calls have returned
C4_Witness ==
    /\ AllIdle
    /\ Cardinality(withdrawals) = 1
    /\ \A p \in Procs : res[p].err = ErrNone /\ res[p].w \in withdrawals

\* C5: a call on an existing user whose (user, key) has no row and whose amount
\* is within the balance (the whole balance included) can only return success,
\* from the commit, which takes exactly the amount off the balance, adds exactly
\* one pending row for the request and exactly one debit entry for that row.
C5_Step(p) ==
    (/\ pc[p] \in CreatePCs
     /\ Returns(p)
     /\ call[p].UserID \in DOMAIN users
     /\ RowsOfRequest(p) = {}
     /\ call[p].Amount <= users[call[p].UserID])
    => /\ pc[p] = "cw_commit"
       /\ res'[p].err = ErrNone
       /\ users' = [users EXCEPT ![call[p].UserID] = @ - call[p].Amount]
       /\ \E id \in WithdrawalIDs \ {w.id : w \in withdrawals} :
             /\ withdrawals' = withdrawals \cup {NewWithdrawal(call[p], id)}
             /\ res'[p].w = NewWithdrawal(call[p], id)
             /\ \E lid \in (1..lseq) \ {e.id : e \in ledger} :
                   ledger' = ledger \cup
                      {[id |-> lid, user_id |-> call[p].UserID, withdrawal_id |-> id,
                        amount |-> call[p].Amount, currency |-> USDT,
                        direction |-> "debit"]}

C5_CreateEffect == [][\A p \in Procs : C5_Step(p)]_vars

\* a first-time request for the whole balance has been committed
C5_Witness ==
    \E p \in Procs :
        /\ res[p].err = ErrNone
        /\ res[p].w \in withdrawals
        /\ res[p].w.status = StatusPending
        /\ res[p].w.amount = initial[res[p].w.user_id]
        /\ users[res[p].w.user_id] = 0

\* C6: a call whose (user, key) has a row that differs from the request in
\* amount, currency or destination returns ErrIdempotencyConflict, and
\* balances, rows and ledger entries stay as they are.
C6_Step(p) ==
    (/\ pc[p] \in CreatePCs
     /\ pc'[p] # pc[p]
     /\ \E w \in RowsOfRequest(p) : ~MatchesRequest(w, p))
    => /\ pc[p] \in {"cw_lock", "cw_lookup"}
       /\ pc[p] = "cw_lookup" =>
             /\ pc'[p] = "idle"
             /\ res'[p].err = ErrIdempotencyConflict
             /\ res'[p].w = ZeroWithdrawal
       /\ db' = db

C6_Conflict == [][\A p \in Procs : C6_Step(p)]_vars

\* a conflict was returned for a request that differs in the destination only
C6_Witness ==
    \E p \in Procs :
        /\ res[p].err = ErrIdempotencyConflict
        /\ \E q \in Procs \ {p} :
              /\ res[q].err = ErrNone
              /\ res[q].w \in withdrawals
              /\ Cardinality(withdrawals) = 1

\* C7: a call on an existing user whose (user, key) has no row and whose amount
\* exceeds the balance returns ErrInsufficientBalance from the balance test,
\* and balances, rows and ledger entries stay as they are.
C7_Step(p) ==
    (/\ pc[p] \in CreatePCs
     /\ pc'[p] # pc[p]
     /\ call[p].UserID \in DOMAIN users
     /\ RowsOfRequest(p) = {}
     /\ call[p].Amount > users[call[p].UserID])
    => /\ pc[p] \in {"cw_lock", "cw_lookup"}
       /\ pc[p] = "cw_lookup" =>
             /\ pc'[p] = "idle"
             /\ res'[p].err = ErrInsufficientBalance
             /\ res'[p].w = ZeroWithdrawal
       /\ db' = db
       /\ wseq' = wseq /\ lseq' = lseq

C7_Insufficient == [][\A p \in Procs : C7_Step(p)]_vars

\* a request was refused for its amount, and nothing was written
C7_Witness ==
    \E p \in Procs :
        /\ res[p].err = ErrInsufficientBalance
        /\ withdrawals = {} /\ ledger = {}
        /\ DOMAIN users # {}
        /\ \A u \in DOMAIN users : users[u] = initial[u]

\* C8: no two creation transactions of one user are past the locking select at
\* once; whoever is past it holds the user's row lock.
C8_MutualExclusion ==
    /\ \A p, q \in Procs :
          (p # q /\ pc[p] \in CreateInTx /\ pc[q] \in CreateInTx)
          => call[p].UserID # call[q].UserID
    /\ \A p \in Procs : pc[p] \in CreateInTx => userLock[call[p].UserID] = p

\* one transaction is between its insert and its commit while another call of
\* the same user waits at the locking select
C8_Witness ==
    \E p, q \in Procs :
        /\ p # q
        /\ pc[p] \in {"cw_debit", "cw_ledger", "cw_commit"}
        /\ pc[q] = "cw_lock"
        /\ call[q].UserID = call[p].UserID
        /\ ~ENABLED CWLock(q)

\* C9: a creation call has a step to take whenever no other creation
\* transaction of its own user is past the locking select: transactions of
\* other users, whatever they hold, never make it wait.
C9_NoContention ==
    \A q \in Procs :
        (/\ pc[q] \in CreatePCs
         /\ \A p \in Procs \ {q} :
               pc[p] \in CreateInTx => call[p].UserID # call[q].UserID)
        => ENABLED CreateWithdrawalStep(q)

\* two creation transactions of different users hold their locks at once
C9_Witness ==
    \E p, q \in Procs :
        /\ pc[p] \in CreateInTx /\ pc[q] \in CreateInTx
        /\ call[p].UserID # call[q].UserID
        /\ userLock[call[p].UserID] = p /\ userLock[call[q].UserID] = q

\* C10: balances, rows and ledger entries change in a step of a creation call
\* only when that step is the commit returning success; every other step, and
\* so every step of a call that ends in an error (a domain error, or a storage
\* failure at the select, the lookup, the insert, the debit, the ledger insert
\* or the commit), leaves them as they are, and a call that has returned has
\* no uncommitted writes and no locks left.
C10_Step(p) ==
    (pc[p] \in CreatePCs /\ pc'[p] # pc[p])
    => /\ (db' # db => (pc[p] = "cw_commit" /\ pc'[p] = "idle" /\ res'[p].err = ErrNone))
       /\ pc'[p] = "idle" =>
             /\ tx'[p] = EmptyTx
             /\ \A u \in Users : userLock'[u] # p

C10_Atomic == [][\A p \in Procs : C10_Step(p)]_vars

\* a call failed in the storage after its row, debit and ledger entry had been
\* written, and nothing of them is there
C10_Witness ==
    \E p \in Procs :
        /\ res[p].err = ErrStorage
        /\ wseq = 1 /\ lseq = 1
        /\ AllIdle
        /\ withdrawals = {} /\ ledger = {}
        /\ \A u \in DOMAIN users : users[u] = initial[u]

\* C11: in every committed state, storage failures included, each withdrawal
\* row has exactly one ledger entry, which carries the row's user, amount and
\* currency and the direction debit, and each ledger entry references exactly
\* one existing withdrawal row; no committed state has the one without the
\* other.
C11_OneToOne ==
    /\ \A w \in withdrawals :
          /\ Cardinality({e \in ledger : e.withdrawal_id = w.id}) = 1
          /\ \A e \in ledger : e.withdrawal_id = w.id =>
                /\ e.user_id = w.user_id
                /\ e.amount = w.amount
                /\ e.currency = w.currency
                /\ e.direction = DirectionDebit
    /\ \A e \in ledger :
          Cardinality({w \in withdrawals : w.id = e.withdrawal_id}) = 1

\* two rows and their two entries are committed while a failed call has left
\* nothing behind
C11_Witness ==
    /\ Cardinality(withdrawals) = 2
    /\ Cardinality(ledger) = 2
    /\ \E p \in Procs : res[p].err = ErrStorage

\* C12: no two distinct withdrawal rows, committed or written by an open
\* transaction, have the same (user id, idempotency key), and no two have the
\* same id.
C12_RowsUnique ==
    LET rows == withdrawals \cup UNION {tx[p].ins : p \in Procs} IN
    \A w1, w2 \in rows :
        w1 # w2 =>
            /\ w1.id # w2.id
            /\ ~(w1.user_id = w2.user_id /\ w1.idempotency_key = w2.idempotency_key)

\* two rows of one user under different keys are committed, and a request has
\* been repeated under one of the keys
C12_Witness ==
    /\ \E w1, w2 \in withdrawals :
          /\ w1.id # w2.id
          /\ w1.user_id = w2.user_id
          /\ w1.idempotency_key # w2.idempotency_key
    /\ \E p \in Procs : res[p].err = ErrIdempotencyConflict

\* C13: a row enters the table with status pending; the status of every row,
\* committed or written by an open transaction, is pending or confirmed; and
\* a committed row that is confirmed is confirmed in every later state.
C13_StatusOK ==
    /\ \A w \in withdrawals \cup UNION {tx[p].ins : p \in Procs} :
          w.status \in {StatusPending, StatusConfirmed}
    /\ \A p \in Procs : \A s \in tx[p].upd : s[2] = StatusConfirmed

C13_StatusStep ==
    /\ \A w \in withdrawals' :
          (\A w0 \in withdrawals : w0.id # w.id) => w.status = StatusPending
    /\ \A w \in withdrawals :
          w.status = StatusConfirmed =>
             \E w2 \in withdrawals' : w2.id = w.id /\ w2.status = StatusConfirmed

C13_StatusMonotone == []C13_StatusOK /\ [][C13_StatusStep]_vars

\* a row that a caller was handed as pending is confirmed now
C13_Witness ==
    \E w \in withdrawals :
        /\ w.status = StatusConfirmed
        /\ \E p \in Procs : res[p].w.id = w.id /\ res[p].w.status = StatusPending

\* C14: a confirmation of a row that exists returns success with that row's
\* id and the status confirmed, and the row is confirmed once it has returned;
\* when the row is confirmed already, no step of the call changes balances,
\* rows or ledger entries: the state after a second or later confirmation is
\* the state after the first.
C14_Step(p) ==
    (/\ pc[p] \in ConfirmPCs
     /\ pc'[p] # pc[p]
     /\ \E w \in withdrawals : w.id = call[p].id)
    => /\ Returns(p) =>
             /\ pc[p] = "cf_commit"
             /\ res'[p].err = ErrNone
             /\ res'[p].w.id = call[p].id
             /\ res'[p].w.status = StatusConfirmed
             /\ res'[p].w \in withdrawals'
       /\ (\E w \in withdrawals : w.id = call[p].id /\ w.status = StatusConfirmed)
             => db' = db

C14_ConfirmIdempotent == [][\A p \in Procs : C14_Step(p)]_vars

\* a confirmation found the row confirmed by an earlier one: it holds the row
\* lock, has written nothing, and is about to commit and return
C14_Witness ==
    \E p \in Procs :
        /\ pc[p] = "cf_commit"
        /\ tx[p] = EmptyTx
        /\ created[p].status = StatusConfirmed
        /\ created[p] \in withdrawals
        /\ \E q \in Procs \ {p} : res[q].err = ErrNone /\ res[q].w = created[p]

\* C15: of the concurrent confirmations of one pending row, every one that
\* has returned has returned success with the row confirmed, and the update
\* pending -> confirmed is executed by exactly one of them: an update is
\* executed only while the committed row is pending and no other transaction
\* has an update of its own not yet committed, and once all have returned the
\* row is confirmed.
C15_State ==
    /\ \A p \in Procs :
          res[p] # NoResult =>
             /\ res[p].err = ErrNone
             /\ res[p].w.id = 1
             /\ res[p].w.status = StatusConfirmed
             /\ res[p].w \in withdrawals
    /\ Cardinality({p \in Procs : tx[p].upd # {}}) <= 1
    /\ AllIdle => \A w \in withdrawals : w.status = StatusConfirmed

C15_UpdateStep(p) ==
    (pc[p] = "cf_update" /\ pc'[p] # pc[p])
    => /\ \A w \in withdrawals : w.status = StatusPending
       /\ \A q \in Procs \ {p} : tx[q].upd = {} /\ pc[q] # "cf_update"
       /\ tx'[p].upd # {}

C15_OneUpdate == []C15_State /\ [][\A p \in Procs : C15_UpdateStep(p)]_vars

\* every process has confirmed the row and returned; one waited for the row
\* lock of the other
C15_Witness ==
    /\ AllIdle
    /\ \A p \in Procs : res[p].err = ErrNone /\ res[p].w.status = StatusConfirmed
    /\ \A w \in withdrawals : w.status = StatusConfirmed

\* C16: a call of ConfirmWithdrawal or GetWithdrawal whose id has no committed
\* row returns ErrNotFound from its select, with no withdrawal, and leaves
\* balances, rows, ledger entries and both sequences as they are.
C16_Step(p) ==
    (/\ pc[p] \in {"cf_lock", "gw_query"}
     /\ pc'[p] # pc[p]
     /\ \A w \in withdrawals : w.id # call[p].id)
    => /\ pc'[p] = "idle"
       /\ res'[p].err = ErrNotFound
       /\ res'[p].w = ZeroWithdrawal
       /\ db' = db
       /\ wseq' = wseq /\ lseq' = lseq

C16_NotFound == [][\A p \in Procs : C16_Step(p)]_vars

\* both processes were told not found, for an id other than the one row there is
C16_Witness ==
    /\ \A p \in Procs : res[p].err = ErrNotFound
    /\ Cardinality(withdrawals) = 1
    /\ Cardinality(ledger) = 1

\* C17: a call of CreateWithdrawal whose user id has no user row returns
\* ErrUserNotFound from the locking select, with no withdrawal, whatever its
\* key and payload and whatever rows other users have; no user row, no
\* withdrawal and no ledger entry is written, no sequence value drawn and no
\* lock kept.
C17_Step(p) ==
    (/\ pc[p] \in CreatePCs
     /\ pc'[p] # pc[p]
     /\ call[p].UserID \notin DOMAIN users)
    => /\ pc[p] = "cw_lock"
       /\ pc'[p] = "idle"
       /\ res'[p].err = ErrUserNotFound
       /\ res'[p].w = ZeroWithdrawal
       /\ db' = db
       /\ wseq' = wseq /\ lseq' = lseq
       /\ \A u \in Users : userLock'[u] # p

C17_UserNotFound == [][\A p \in Procs : C17_Step(p)]_vars

\* a request for a missing user was refused while another user has a row
C17_Witness ==
    \E p \in Procs :
        /\ res[p].err = ErrUserNotFound
        /\ Cardinality(DOMAIN users) = 1
        /\ Cardinality(withdrawals) = 1

\* C18: the insert of a user id that has no row succeeds and creates the row
\* with the requested balance, leaving every other row alone; the insert of an
\* id that has a row returns ErrUserExists and leaves every balance as it is;
\* user rows never go away.  So of all the calls made with one id, one after or
\* beside the other, exactly one succeeds: no two callers hold a success for
\* the same id, and the user's starting balance is the one of the call that
\* succeeded.
C18_State ==
    /\ \A p \in Procs :
          (res[p].err = ErrNone /\ res[p].u # ZeroUser) =>
             /\ res[p].u.id \in DOMAIN users
             /\ initial[res[p].u.id] = res[p].u.balance
             /\ \A q \in Procs \ {p} : res[q].u.id # res[p].u.id

C18_Step(p) ==
    (pc[p] = "cu_insert" /\ pc'[p] # pc[p])
    => /\ pc'[p] = "idle"
       /\ withdrawals' = withdrawals /\ ledger' = ledger
       /\ IF call[p].UserID \in DOMAIN users
          THEN /\ res'[p].err = ErrUserExists
               /\ res'[p].u = ZeroUser
               /\ users' = users
          ELSE /\ res'[p].err = ErrNone
               /\ res'[p].u = [id |-> call[p].UserID, balance |-> call[p].Balance]
               /\ DOMAIN users' = DOMAIN users \cup {call[p].UserID}
               /\ users'[call[p].UserID] = call[p].Balance
               /\ \A x \in DOMAIN users : users'[x] = users[x]

C18_UsersUnique ==
    /\ []C18_State
    /\ [][(DOMAIN users \subseteq DOMAIN users') /\ \A p \in Procs : C18_Step(p)]_vars

\* one call created the user with a balance, another was refused, and the
\* balance is still the one the user was created with
C18_Witness ==
    \E p, q \in Procs :
        /\ res[p].err = ErrNone
        /\ res[p].u.id \in DOMAIN users
        /\ res[p].u.balance = MaxBalance
        /\ users[res[p].u.id] = MaxBalance
        /\ res[q].err = ErrUserExists
        /\ Cardinality(DOMAIN users) = 1

\* C19: every call that is in the store came through validation: a creation
\* call has a positive user id, a positive amount, the currency USDT, and a
\* destination and a key that are not empty and carry no surrounding space; a
\* user call has a positive id and a balance that is not negative.  A request
\* answered invalid_request started no call and changed nothing: no balance,
\* row, ledger entry, sequence, lock or transaction.
C19_State ==
    \A p \in Procs :
        /\ pc[p] \in CreatePCs =>
              /\ call[p].UserID > 0
              /\ call[p].Amount > 0
              /\ call[p].Currency = USDT
              /\ call[p].Destination \in Destinations
              /\ call[p].IdempotencyKey \in Keys
        /\ pc[p] \in UserPCs =>
              /\ call[p].UserID > 0
              /\ call[p].Balance >= 0

C19_RejectStep(p) ==
    (res'[p].err = ErrInvalidRequest /\ res'[p] # res[p])
    => /\ pc[p] = "idle"
       /\ UNCHANGED <<users, initial, withdrawals, ledger, wseq, lseq, userLock,
                      rowLock, pc, call, balance, created, tx>>

C19_InvalidInput == []C19_State /\ [][\A p \in Procs : C19_RejectStep(p)]_vars

\* a request was answered invalid_request while a user has a committed row
\* and is left with the balance the row's debit made
C19_Witness ==
    \E p \in Procs :
        /\ res[p].err = ErrInvalidRequest
        /\ Cardinality(withdrawals) = 1
        /\ \A w \in withdrawals : users[w.user_id] = initial[w.user_id] - w.amount

\* C20: a creation call whose insert meets a committed row with the request's
\* (user id, idempotency key) returns that row with success when the payload
\* matches and ErrIdempotencyConflict when it differs, and writes no row, no
\* debit and no ledger entry.
C20_Step(p) ==
    (/\ pc[p] = "cw_insert"
     /\ pc'[p] # pc[p]
     /\ RowsOfRequest(p) # {})
    => /\ pc'[p] = "idle"
       /\ \A w \in RowsOfRequest(p) :
             IF MatchesRequest(w, p)
             THEN res'[p].err = ErrNone /\ res'[p].w = w
             ELSE res'[p].err = ErrIdempotencyConflict
       /\ db' = db
       /\ lseq' = lseq

OwnerOfLocked(q) == created[q].user_id

ConfirmInTx == {"cf_update", "cf_commit"}

\* C21 as stated: a confirmation past its locking select holds the row lock of
\* the owning user, and no creation transaction of that user is past its own
\* locking select at the same time.
C21_ConfirmTakesUserLock ==
    \A q \in Procs :
        pc[q] \in ConfirmInTx =>
            /\ userLock[OwnerOfLocked(q)] = q
            /\ \A p \in Procs \ {q} :
                  pc[p] \in CreateInTx => call[p].UserID # OwnerOfLocked(q)

\* C21 as the code has it: a creation past its locking select holds the lock
\* of its user's row, and creations of one user exclude each other; a
\* confirmation past its locking select holds the lock of the withdrawal row
\* it addresses and no lock on any user row, and confirmations of one
\* withdrawal exclude each other.
C21_LocksHeld ==
    /\ \A p \in Procs :
          pc[p] \in CreateInTx =>
             /\ userLock[call[p].UserID] = p
             /\ \A id \in WithdrawalIDs : rowLock[id] # p
    /\ \A q \in Procs :
          pc[q] \in ConfirmInTx =>
             /\ rowLock[call[q].id] = q
             /\ created[q].id = call[q].id
             /\ \A u \in Users : userLock[u] # q
    /\ \A p, q \in Procs :
          (p # q /\ pc[p] \in CreateInTx /\ pc[q] \in CreateInTx)
          => call[p].UserID # call[q].UserID
    /\ \A p, q \in Procs :
          (p # q /\ pc[p] \in ConfirmInTx /\ pc[q] \in ConfirmInTx)
          => call[p].id # call[q].id

\* a confirmation holds the lock of a withdrawal row while a creation of the
\* row's owner holds the lock of the user row
C21_Witness ==
    \E p, q \in Procs :
        /\ pc[p] \in CreateInTx
        /\ pc[q] \in ConfirmInTx
        /\ OwnerOfLocked(q) = call[p].UserID
        /\ userLock[call[p].UserID] = p
        /\ rowLock[call[q].id] = q

\* C23: under fair scheduling every creation and every confirmation call
\* returns, a call that waits at a locking select gets past it, and a call
\* that has returned holds no row lock and has no open transaction; so no set
\* of concurrent calls deadlocks.
C23_Released ==
    \A p \in Procs :
        pc[p] = "idle" =>
            /\ \A u \in Users : userLock[u] # p
            /\ \A id \in WithdrawalIDs : rowLock[id] # p
            /\ tx[p] = EmptyTx

C23_EventuallyReturns ==
    /\ []C23_Released
    /\ \A p \in Procs : (pc[p] \in CreatePCs \cup ConfirmPCs) ~> (pc[p] = "idle")
    /\ \A p \in Procs : (pc[p] = "cw_lock") ~> (pc[p] # "cw_lock")
    /\ \A p \in Procs : (pc[p] = "cf_lock") ~> (pc[p] # "cf_lock")

\* a creation waits for the user's row lock that another creation holds
C23_Witness ==
    \E p, q \in Procs :
        /\ p # q
        /\ pc[p] = "cw_lock"
        /\ pc[q] \in CreateInTx
        /\ userLock[call[p].UserID] = q
        /\ ~ENABLED CreateWithdrawalStep(p)

\* C24: a creation call whose (user, key) has a row leaves the lookup with
\* that row and success when the payload matches and with
\* ErrIdempotencyConflict when it differs, whatever the balance, a balance
\* below the amount included; ErrInsufficientBalance is returned only to a
\* call whose (user, key) has no row.
C24_Step(p) ==
    /\ (pc[p] = "cw_lookup" /\ pc'[p] # pc[p] /\ RowsOfRequest(p) # {})
       => /\ pc'[p] = "idle"
          /\ res'[p].err \in {ErrNone, ErrIdempotencyConflict}
          /\ \A w \in RowsOfRequest(p) :
                /\ MatchesRequest(w, p) => (res'[p].err = ErrNone /\ res'[p].w = w)
                /\ ~MatchesRequest(w, p) => res'[p].err = ErrIdempotencyConflict
    /\ (pc[p] \in CreatePCs /\ Returns(p) /\ res'[p].err = ErrInsufficientBalance)
       => /\ RowsOfRequest(p) = {}
          /\ balance[p] < call[p].Amount

C24_LookupFirst == [][\A p \in Procs : C24_Step(p)]_vars

\* a call is at the lookup with a row for its (user, key) and a balance below
\* its amount, after a repetition of the request was answered with the row
C24_Witness ==
    \E p \in Procs :
        /\ pc[p] = "cw_lookup"
        /\ RowsOfRequest(p) # {}
        /\ balance[p] < call[p].Amount
        /\ \E q \in Procs \ {p} :
              /\ res[q].err = ErrNone
              /\ res[q].w \in RowsOfRequest(p)
              /\ users[res[q].w.user_id] < res[q].w.amount

\* C25: a step of a confirmation call, storage failures included, leaves every
\* balance, every ledger entry, both sequences and every withdrawal row other
\* than the addressed one as they are; of the addressed row it changes at most
\* the status, to confirmed; and a confirmation that returns an error has
\* changed nothing.
C25_Step(p) ==
    (pc[p] \in ConfirmPCs /\ pc'[p] # pc[p])
    => /\ users' = users
       /\ initial' = initial
       /\ ledger' = ledger
       /\ wseq' = wseq /\ lseq' = lseq
       /\ \/ withdrawals' = withdrawals
          \/ withdrawals' = {IF w.id = call[p].id
                             THEN [w EXCEPT !.status = StatusConfirmed]
                             ELSE w : w \in withdrawals}
       /\ (pc'[p] = "idle" /\ res'[p].err # ErrNone) => withdrawals' = withdrawals

C25_ConfirmFrame == [][\A p \in Procs : C25_Step(p)]_vars

\* one row has been confirmed while the row of another user is pending still
C25_Witness ==
    \E p \in Procs :
        /\ res[p].err = ErrNone
        /\ res[p].w.status = StatusConfirmed
        /\ res[p].w \in withdrawals
        /\ \E w2 \in withdrawals : w2.id # res[p].w.id /\ w2.status = StatusPending
        /\ Cardinality(ledger) = 2

\* C26: the status tests of a confirmation end in ErrInvalidStatus exactly for
\* a status that is neither pending nor confirmed (tried on the two statuses
\* and on one the schema does not allow); no row, committed or written by an
\* open transaction, has such a status, and no call has returned
\* ErrInvalidStatus, with storage failures possible at every statement.
C26_NeverInvalidStatus ==
    /\ \A st \in {StatusPending, StatusConfirmed, "cancelled"} :
          InvalidStatus([ZeroWithdrawal EXCEPT !.status = st])
             <=> st \notin {StatusPending, StatusConfirmed}
    /\ \A w \in withdrawals \cup UNION {tx[p].ins : p \in Procs} : ~InvalidStatus(w)
    /\ \A p \in Procs : pc[p] \in ConfirmInTx => ~InvalidStatus(created[p])
    /\ \A p \in Procs : res[p].err # ErrInvalidStatus

\* one confirmation is past the status tests with a pending row, after another
\* row was confirmed and returned
C26_Witness ==
    \E p, q \in Procs :
        /\ pc[p] = "cf_update"
        /\ created[p].status = StatusPending
        /\ res[q].err = ErrNone
        /\ res[q].w.status = StatusConfirmed
        /\ res[q].w \in withdrawals
        /\ res[q].w.id # call[p].id

\* C27: every ledger entry has the direction debit; no step removes or alters
\* an entry; and the ledger grows only in the commit of a creation call that
\* returns success with a row that was not there before, by exactly one entry,
\* which references that row.  No other step (of CreateUser, GetWithdrawal,
\* ConfirmWithdrawal, a repeated or a failed creation) adds an entry.
C27_AllDebit == \A e \in ledger : e.direction = DirectionDebit

C27_Step ==
    /\ ledger \subseteq ledger'
    /\ ledger' # ledger =>
          \E p \in Procs :
             /\ pc[p] = "cw_commit" /\ pc'[p] = "idle"
             /\ RowsOfRequest(p) = {}
             /\ res'[p].err = ErrNone
             /\ res'[p].w \notin withdrawals
             /\ res'[p].w \in withdrawals'
             /\ Cardinality(ledger' \ ledger) = 1
             /\ \A e \in ledger' \ ledger :
                   /\ e.withdrawal_id = res'[p].w.id
                   /\ e.id \notin {e0.id : e0 \in ledger}

C27_AppendOnly == []C27_AllDebit /\ [][C27_Step]_vars

\* one entry is committed, and a creation that had written its own entry
\* failed and left none
C27_Witness ==
    /\ Cardinality(ledger) = 1
    /\ lseq = 2
    /\ \E p \in Procs : res[p].err = ErrStorage

\* C28: a creation call on an existing user with a sufficient balance whose
\* own (user, key) has no row, while another user has a row under the same key
\* (of the same or of another payload), returns success from its commit with a
\* new row of its own user under a new id, and takes its amount off its own
\* user's balance only; and a creation that succeeds always returns a row of
\* the user and key it asked for.
C28_Step(p) ==
    /\ (/\ pc[p] \in CreatePCs
        /\ Returns(p)
        /\ call[p].UserID \in DOMAIN users
        /\ RowsOfRequest(p) = {}
        /\ call[p].Amount <= users[call[p].UserID]
        /\ \E w \in withdrawals :
              /\ w.idempotency_key = call[p].IdempotencyKey
              /\ w.user_id # call[p].UserID)
       => /\ pc[p] = "cw_commit"
          /\ res'[p].err = ErrNone
          /\ res'[p].w.id \notin {w.id : w \in withdrawals}
          /\ MatchesRequest(res'[p].w, p)
          /\ withdrawals' = withdrawals \cup {res'[p].w}
          /\ users' = [users EXCEPT ![call[p].UserID] = @ - call[p].Amount]
    /\ (pc[p] \in CreatePCs /\ Returns(p) /\ res'[p].err = ErrNone)
       => /\ res'[p].w.user_id = call[p].UserID
          /\ res'[p].w.idempotency_key = call[p].IdempotencyKey

C28_KeyPerUser == [][\A p \in Procs : C28_Step(p)]_vars

\* two users each have a row under one and the same key, with payloads that
\* differ, and each was debited its own amount
C28_Witness ==
    \E w1, w2 \in withdrawals :
        /\ w1.user_id # w2.user_id
        /\ w1.idempotency_key = w2.idempotency_key
        /\ w1.destination # w2.destination
        /\ w1.id # w2.id
        /\ users[w1.user_id] = initial[w1.user_id] - w1.amount
        /\ users[w2.user_id] = initial[w2.user_id] - w2.amount

\* C29: in every committed state, for every user, the balance plus the sum of
\* the amounts of the user's withdrawal rows is the balance the user was
\* created with, and that sum is the sum of the amounts of the user's debit
\* ledger entries.
C29_Conservation ==
    \A u \in DOMAIN users :
        LET rows == {w \in withdrawals : w.user_id = u}
            debits == {e \in ledger : e.user_id = u /\ e.direction = DirectionDebit}
        IN /\ users[u] + SumAmounts(rows) = initial[u]
           /\ SumAmounts(rows) = SumAmounts(debits)

\* a user has two rows, one of them confirmed, a failed call behind, and a
\* balance down by both amounts
C29_Witness ==
    \E u \in DOMAIN users :
        /\ Cardinality({w \in withdrawals : w.user_id = u}) = 2
        /\ \E w \in withdrawals : w.status = StatusConfirmed
        /\ users[u] < initial[u] - MaxAmount
        /\ \E p \in Procs : res[p].err = ErrStorage

\* C30: with every insert into withdrawals made by CreateWithdrawal, a call
\* that is at its insert finds no row of its (user, key), neither a committed
\* one nor one of an open transaction it would have to wait for, and no call
\* has returned the unique violation of the insert: the branch that runs the
\* lookup again is never entered.
C30_InsertNeverCollides ==
    /\ \A p \in Procs :
          pc[p] = "cw_insert" =>
             /\ ~UniqueViolation(p, call[p].UserID, call[p].IdempotencyKey)
             /\ ~UniqueWait(p, call[p].UserID, call[p].IdempotencyKey)
    /\ \A p \in Procs : res[p].err \notin {ErrUniqueViolation, ErrTxAborted}

\* one call is at its insert while another call with the same user and key
\* waits at the locking select
C30_Witness ==
    \E p, q \in Procs :
        /\ p # q
        /\ pc[p] = "cw_insert"
        /\ pc[q] = "cw_lock"
        /\ call[q].UserID = call[p].UserID
        /\ call[q].IdempotencyKey = call[p].IdempotencyKey
        /\ call[q].Amount <= users[call[q].UserID]

\* the event the handler logs in the step in which the call of p returns
Logged(p) == LogEvent(call[p].op, res'[p].err)

C22_Step(p) ==
    (Returns(p) /\ res'[p].err # ErrNone)
    => /\ call[p].op = "CreateUser" =>
             /\ Logged(p).event = "user_create_failed"
             /\ Logged(p).reason =
                   (IF res'[p].err = ErrUserExists THEN "user_exists"
                    ELSE "internal_error")
       /\ call[p].op = "CreateWithdrawal" =>
             /\ Logged(p).event = "withdrawal_create_failed"
             /\ Logged(p).reason \in
                   {"insufficient_balance", "idempotency_conflict", "user_not_found",
                    "internal_error"}
             /\ Logged(p).reason = "insufficient_balance"
                   <=> res'[p].err = ErrInsufficientBalance
             /\ Logged(p).reason = "idempotency_conflict"
                   <=> res'[p].err = ErrIdempotencyConflict
             /\ Logged(p).reason = "user_not_found"
                   <=> res'[p].err = ErrUserNotFound
       /\ call[p].op = "ConfirmWithdrawal" =>
             /\ Logged(p).event = "withdrawal_confirm_failed"
             /\ Logged(p).reason =
                   (IF res'[p].err = ErrNotFound THEN "not_found"
                    ELSE IF res'[p].err = ErrInvalidStatus THEN "invalid_status"
                    ELSE "internal_error")
       /\ call[p].op = "GetWithdrawal" => Logged(p) = NoEvent

C31_Step(p) ==
    \A w \in RowsOfRequest(p) :
        (/\ call[p].op = "CreateWithdrawal"
         /\ pc[p] = "cw_lookup" /\ pc'[p] # "cw_lookup"
         /\ MatchesRequest(w, p)
         /\ w.status = StatusConfirmed)
        => /\ Returns(p)
           /\ res'[p].err = ErrNone
           /\ res'[p].w = w
           /\ res'[p].w.status = StatusConfirmed
           /\ db' = db
           /\ w \in withdrawals'

C31_ReplayAfterConfirm == [][\A p \in Procs : C31_Step(p)]_vars

\* a repetition of a request whose withdrawal has been confirmed holds the lock
\* of its user and is at its lookup, and the other process holds the confirmed
\* row as the result of its call
C31_Witness ==
    \E p \in Procs, w \in withdrawals :
        /\ pc[p] = "cw_lookup"
        /\ call[p].op = "CreateWithdrawal"
        /\ w \in RowsOfRequest(p)
        /\ MatchesRequest(w, p)
        /\ w.status = StatusConfirmed
        /\ userLock[w.user_id] = p
        /\ \E q \in Procs \ {p} : res[q].err = ErrNone /\ res[q].w = w

\* C32: a call of CreateWithdrawal that fails with ErrInsufficientBalance
\* leaves no row of its (user, key) and changes nothing; and when a call for
\* the (user, key) of a call that has failed so passes its lookup while no row
\* of the pair is committed and its amount is within the balance, it goes on
\* to the insert as a first request, neither refused nor answered with a
\* conflict, and returns success with a row that is new, pending, and carries
\* its key and its payload.
C32_Step(p) ==
    /\ (Returns(p) /\ res'[p].err = ErrInsufficientBalance)
       => /\ db' = db
          /\ \A w \in withdrawals' :
                ~(w.user_id = call[p].UserID /\ w.idempotency_key = call[p].IdempotencyKey)
    /\ (/\ pc[p] = "cw_lookup" /\ pc'[p] # "cw_lookup"
        /\ \E q \in Procs : res[q].err = ErrInsufficientBalance
        /\ RowsOfRequest(p) = {}
        /\ call[p].Amount <= users[call[p].UserID])
       => pc'[p] = "cw_insert"
    /\ (Returns(p) /\ pc[p] \in CreatePCs \ {"cw_lock", "cw_lookup"})
       => /\ res'[p].err = ErrNone
          /\ res'[p].w \in withdrawals' \ withdrawals
          /\ res'[p].w.status = StatusPending
          /\ res'[p].w.idempotency_key = call[p].IdempotencyKey
          /\ MatchesRequest(res'[p].w, p)
          /\ users'[call[p].UserID] = users[call[p].UserID] - call[p].Amount

C32_FailureReservesNothing == [][\A p \in Procs : C32_Step(p)]_vars

\* one call has failed for lack of balance and another, for the same user and
\* key, has succeeded with the one row there is
C32_Witness ==
    \E p, q \in Procs :
        /\ res[q].err = ErrInsufficientBalance
        /\ res[p].err = ErrNone
        /\ res[p].w.idempotency_key = RetryKey
        /\ withdrawals = {res[p].w}
        /\ wseq = 1

\* C33: a request, to whatever route and with whatever method, whose header
\* Authorization yields a bearer token other than the configured one is
\* answered unauthorized, and in that step no call of the store begins and
\* nothing stored changes: the step changes the answer held by the client and
\* nothing else; and a call of the store begins only in a step that serves a
\* request whose token is the configured one.
C33_Step(p) ==
    /\ \A header \in Headers :
          (extractBearerToken(header) # AuthToken /\ ServeHTTP(p, header))
          => /\ res'[p].err = ErrUnauthorized
             /\ pc'[p] = "idle"
             /\ call' = call
             /\ db' = db
             /\ UNCHANGED <<initial, wseq, lseq, userLock, rowLock, balance, created, tx>>
    /\ (pc[p] = "idle" /\ pc'[p] # "idle")
       => \E header \in Headers :
             /\ extractBearerToken(header) = AuthToken
             /\ ServeHTTP(p, header)
    /\ (res'[p].err = ErrUnauthorized /\ res'[p] # res[p]) => db' = db /\ pc' = pc

C33_AuthGate == [][\A p \in Procs : C33_Step(p)]_vars

\* a client that had a user and a withdrawal created was then answered
\* unauthorized, and the user and the withdrawal are there as they were
C33_Witness ==
    \E p \in Procs :
        /\ res[p].err = ErrUnauthorized
        /\ pc[p] = "idle"
        /\ withdrawals # {}
        /\ \E u \in DOMAIN users : users[u] < initial[u]

====
